---- MODULE Spec2Model ----
(***************************************************************************)
(* A model of kapacitor's node.go: the executing node of a task graph.     *)
(*                                                                         *)
(*   - graph linking: linkChild / addChild / addParentEdge / addParent     *)
(*   - lifecycle:     start, the goroutine running runF, and its deferred  *)
(*                    function (closeChildEdges, recover, abortParentEdges,*)
(*                    log, errCh <- err)                                   *)
(*   - completion:    Err(), guarded by finishedMu and the finished flag   *)
(*                                                                         *)
(* Edges are created by newEdge, which lives outside node.go; the node     *)
(* only ever calls Close and Abort on them, and the model counts those     *)
(* calls per edge.                                                         *)
(***************************************************************************)
EXTENDS Integers, Sequences, FiniteSets, TLC

\* ------------------------------------------------------------------ bounds

\* Number of linkChild calls the orchestrator makes before it starts the nodes.
MaxLinks == 2

\* Number of linkChild calls when only the linking is explored (SpecLink).
MaxGraphLinks == 3

\* Number of goroutines that call Err() (each calls it once, on any node).
MaxCallers == 2

\* Number of goroutines that call Set on the one MaxDuration.
MaxSetters == 2

\* The largest argument of Set, in halves (MaxHalf = 5 is Set(2.5)).
MaxHalf == 5

\* Number of stop() calls the orchestrator makes on one node.
MaxStops == 2

\* Capacity of an edge's queue (the edge buffer size, scaled down).
EdgeCap == 2

\* Number of records a run routine writes at most.
MaxRecords == 3

\* ------------------------------------------------------- program constants

\* make(chan error, 1): the capacity of the completion channel.
errChCap == 1

\* ------------------------------------------------------------------ values

Nodes == {1, 2}

Callers == 1..MaxCallers

Setters == 1..MaxSetters

\* The float64 arguments given to Set, in halves: -1.0, -0.5, 0, 0.5, ...
SetValues == (-2)..MaxHalf

\* pipeline.EdgeType values a node can declare.
EdgeTypes == {"NoEdge", "StreamEdge", "BatchEdge"}

\* The nil error, and the non-nil error a run routine may return.
NoErr == "nil"

Errors == {"e1"}

\* fmt.Errorf("%s: Trace:%s", r, string(trace[:n])): the error built from a
\* recovered panic value and the stack excerpt.
TraceErr == "panic: Trace:stack"

\* The stream shapes newEdge builds a conduit for.
ConduitTypes == {"StreamEdge", "BatchEdge"}

\* The groups of the records, and the records a run routine writes: each has
\* a group, a tag set and a dimension list.
Groups == {"g1", "g2"}

Records ==
    { [group |-> "g1", tags |-> "host=a", dims |-> "host"],
      [group |-> "g1", tags |-> "host=b", dims |-> "host"],
      [group |-> "g2", tags |-> "dc=x", dims |-> "dc"] }

\* A map without entries, and the nil map of a nodeStatsByGroup() that made
\* none.
EmptyMap == [g \in {} |-> 0]

NilStats == [nil |-> TRUE, m |-> EmptyMap]

\* A channel that was never made: receiving from it blocks forever.
NilChan == [nil |-> TRUE, buf |-> <<>>]

VARIABLES
    provides,   \* n.Provides(): the edge type each node declares as output
    wants,      \* n.Wants():    the edge type each node declares as input
    children,   \* n.children: sequence of node ids
    parents,    \* n.parents:  sequence of node ids
    ins,        \* n.ins:      sequence of edge ids
    outs,       \* n.outs:     sequence of edge ids
    edges,      \* every *Edge created so far, by id (its index; 0 is nil)
    linkCalls,  \* number of linkChild calls made
    lastLink,   \* the last linkChild call: [n, c, res]
    pc,         \* where each node's start/goroutine is
    err,        \* the goroutine's local variable err
    panicking,  \* whether the goroutine is unwinding a panic of runF
    runs,       \* number of times runF was entered
    result,     \* how runF ended: "none" yet, "panic", or the error returned
    errCh,      \* n.errCh: NilChan before start, then the buffered values
    posted,     \* every value sent on n.errCh, in order
    logged,     \* every value passed to n.logger.Println
    statsKey,   \* whether start registered n's statistics
    crashed,    \* the process died of an unrecovered panic
    finished,   \* n.finished
    nerr,       \* n.err
    mu,         \* n.finishedMu: 0, or the caller holding it
    reads,      \* number of receives from n.errCh
    cpc,        \* where each Err() caller is
    target,     \* the node a caller called Err() on
    onNil,      \* the caller's receive was started on a nil channel
    ret,        \* what the caller's Err() returned
    d,          \* MaxDuration.d
    spc,        \* where each Set caller is
    sval,       \* the float64 argument of the caller's Set, in halves
    scur,       \* the caller's local variable cur
    registry,   \* the statistics registry: the nodes whose key is registered
    regCalls,   \* number of NewStatistics calls made for each node
    unregCalls, \* number of DeleteStatistics calls made by each node
    stopFCalls, \* number of times each node's stopF was invoked
    wop,        \* the edge each node's run routine has a Write pending on, or 0
    wret,       \* "ConduitAborted" once a Write of the node's run routine failed
    stats       \* what each node's last nodeStatsByGroup() returned

graphVars == <<provides, wants, children, parents, ins, outs, edges, linkCalls, lastLink>>

runVars == <<pc, err, panicking, runs, result, errCh, posted, logged, statsKey, crashed>>

errVars == <<finished, nerr, mu, reads, cpc, target, onNil, ret>>

maxVars == <<d, spc, sval, scur>>

stopVars == <<registry, regCalls, unregCalls, stopFCalls>>

flowVars == <<wop, wret>>

extVars == <<maxVars, stopVars, flowVars, stats>>

vars == <<graphVars, runVars, errVars, extVars>>

\* ------------------------------------------------------------------ helpers

\* Number of positions of sequence s holding x.
Count(s, x) == Cardinality({i \in DOMAIN s : s[i] = x})

\* Everything but the declared types, as the constructor leaves it.
Created ==
    /\ children = [n \in Nodes |-> <<>>]
    /\ parents = [n \in Nodes |-> <<>>]
    /\ ins = [n \in Nodes |-> <<>>]
    /\ outs = [n \in Nodes |-> <<>>]
    /\ edges = <<>>
    /\ linkCalls = 0
    /\ lastLink = [n |-> 0, c |-> 0, res |-> "none"]
    /\ pc = [n \in Nodes |-> "created"]
    /\ err = [n \in Nodes |-> NoErr]
    /\ panicking = [n \in Nodes |-> FALSE]
    /\ runs = [n \in Nodes |-> 0]
    /\ result = [n \in Nodes |-> "none"]
    /\ errCh = [n \in Nodes |-> NilChan]
    /\ posted = [n \in Nodes |-> <<>>]
    /\ logged = [n \in Nodes |-> <<>>]
    /\ statsKey = [n \in Nodes |-> FALSE]
    /\ crashed = FALSE
    /\ finished = [n \in Nodes |-> FALSE]
    /\ nerr = [n \in Nodes |-> NoErr]
    /\ mu = [n \in Nodes |-> 0]
    /\ reads = [n \in Nodes |-> 0]
    /\ cpc = [c \in Callers |-> "idle"]
    /\ target = [c \in Callers |-> 0]
    /\ onNil = [c \in Callers |-> FALSE]
    /\ ret = [c \in Callers |-> NoErr]
    /\ d = 0
    /\ spc = [s \in Setters |-> "idle"]
    /\ sval = [s \in Setters |-> 0]
    /\ scur = [s \in Setters |-> 0]
    /\ registry = {}
    /\ regCalls = [n \in Nodes |-> 0]
    /\ unregCalls = [n \in Nodes |-> 0]
    /\ stopFCalls = [n \in Nodes |-> 0]
    /\ wop = [n \in Nodes |-> 0]
    /\ wret = [n \in Nodes |-> "none"]
    /\ stats = [n \in Nodes |-> NilStats]

\* Two nodes as a task has them: a source (wants nothing, provides a stream)
\* and a sink (wants a stream, provides nothing).
Init ==
    /\ provides = <<"StreamEdge", "NoEdge">>
    /\ wants = <<"NoEdge", "StreamEdge">>
    /\ Created

\* Two nodes of any declared types.
InitLink ==
    /\ provides \in [Nodes -> EdgeTypes]
    /\ wants \in [Nodes -> EdgeTypes]
    /\ Created

\* ------------------------------------------------------------ graph linking

\* newEdge(task, parent, child, type, size, logService): a fresh edge from n
\* to c, or nil (the empty sequence) for a type that is no stream shape.
newEdge(n, c, t) ==
    IF t \in ConduitTypes
    THEN <<[parent |-> n, child |-> c, type |-> t, closed |-> 0, aborted |-> 0,
            q |-> <<>>, gstats |-> EmptyMap]>>
    ELSE <<>>

\* n.ins = append(n.ins, e)
addParentEdge(n, e, insNow) == [insNow EXCEPT ![n] = Append(@, e)]

\* n.parents = append(n.parents, p)
addParent(n, p, parentsNow) == [parentsNow EXCEPT ![n] = Append(@, p)]

\* addChild with the type check made only after the child was recorded.
addChildCheckLate(n, c) ==
    LET ch == [children EXCEPT ![n] = Append(@, c)]
        made == newEdge(n, c, provides[n])
        id == Len(edges) + 1
    IN  IF provides[n] # wants[c] \/ made = <<>>
        THEN [edge |-> 0,
              res |-> IF provides[n] # wants[c] THEN "mismatch" ELSE "unknown",
              children |-> ch, edges |-> edges, ins |-> ins]
        ELSE [edge |-> id, res |-> "ok", children |-> ch,
              edges |-> edges \o made, ins |-> addParentEdge(c, id, ins)]

\* addChild that hands out the edge already leading to c when there is one.
addChildDedup(n, c) ==
    LET ch == [children EXCEPT ![n] = Append(@, c)]
        made == newEdge(n, c, provides[n])
        old == {i \in DOMAIN edges : edges[i].parent = n /\ edges[i].child = c}
        id == IF old # {} THEN CHOOSE i \in old : TRUE ELSE Len(edges) + 1
    IN  IF provides[n] # wants[c]
        THEN [edge |-> 0, res |-> "mismatch",
              children |-> children, edges |-> edges, ins |-> ins]
        ELSE IF made = <<>>
        THEN [edge |-> 0, res |-> "unknown",
              children |-> ch, edges |-> edges, ins |-> ins]
        ELSE [edge |-> id, res |-> "ok", children |-> ch,
              edges |-> IF old # {} THEN edges ELSE edges \o made,
              ins |-> addParentEdge(c, id, ins)]

\* n.addChild(c): the edge (0 for nil), the outcome, and the fields it leaves.
addChild(n, c) ==
    LET ch == [children EXCEPT ![n] = Append(@, c)]
        made == newEdge(n, c, provides[n])
        id == Len(edges) + 1
    IN  IF provides[n] # wants[c]
        THEN [edge |-> 0, res |-> "mismatch",
              children |-> children, edges |-> edges, ins |-> ins]
        ELSE IF made = <<>>
        THEN [edge |-> 0, res |-> "unknown",
              children |-> ch, edges |-> edges, ins |-> ins]
        ELSE [edge |-> id, res |-> "ok", children |-> ch,
              edges |-> edges \o made, ins |-> addParentEdge(c, id, ins)]

\* n.linkChild(c). The graph is built before any node is started: linkChild
\* writes n.outs and c.ins with no synchronisation against the goroutine.
linkChild(n, c) ==
    /\ ~crashed
    /\ \A m \in Nodes : pc[m] = "created"
    /\ LET r == addChild(n, c)
       IN  /\ children' = r.children
           /\ edges' = r.edges
           /\ ins' = r.ins
           /\ IF r.res # "ok"
              THEN UNCHANGED <<parents, outs>>
              ELSE /\ parents' = addParent(c, n, parents)
                   /\ outs' = [outs EXCEPT ![n] = Append(@, r.edge)]
           /\ lastLink' = [n |-> n, c |-> c, res |-> r.res]
    /\ linkCalls' = linkCalls + 1
    /\ UNCHANGED <<provides, wants>>
    /\ UNCHANGED <<runVars, errVars>>
    /\ UNCHANGED extVars

\* --------------------------------------------------------------- lifecycle

\* closeChildEdges that stops after the first output.
closeChildEdgesFirstOnly(n, edgesNow) ==
    [i \in DOMAIN edgesNow |->
        IF outs[n] # <<>> /\ Head(outs[n]) = i
        THEN [edgesNow[i] EXCEPT !.closed = @ + 1]
        ELSE edgesNow[i]]

\* n.closeChildEdges(): Close() once per entry of n.outs.
closeChildEdges(n, edgesNow) ==
    [i \in DOMAIN edgesNow |->
        [edgesNow[i] EXCEPT !.closed = @ + Count(outs[n], i)]]

\* abortParentEdges that stops after the first input.
abortParentEdgesFirstOnly(n, edgesNow) ==
    [i \in DOMAIN edgesNow |->
        IF ins[n] # <<>> /\ Head(ins[n]) = i
        THEN [edgesNow[i] EXCEPT !.aborted = @ + 1]
        ELSE edgesNow[i]]

\* An unwinding that aborts the outputs of n along with its inputs.
abortAllEdges(n, edgesNow) ==
    [i \in DOMAIN edgesNow |->
        [edgesNow[i] EXCEPT !.aborted = @ + Count(ins[n], i) + Count(outs[n], i)]]

\* n.abortParentEdges(): Abort() once per entry of n.ins.
abortParentEdges(n, edgesNow) ==
    [i \in DOMAIN edgesNow |->
        [edgesNow[i] EXCEPT !.aborted = @ + Count(ins[n], i)]]

\* NewStatistics("nodes", tags): the registry gains a key of n's own.
NewStatistics(n, reg) == reg \cup {n}

\* DeleteStatistics(key): the registry loses the key; deleting a key that is
\* not registered (or the empty key of a node never started) changes nothing.
DeleteStatistics(n, hasKey, reg) == IF hasKey THEN reg \ {n} ELSE reg

\* n.start(snapshot), up to the go statement: register the statistics, make
\* the completion channel and launch the goroutine.
start(n) ==
    /\ ~crashed
    /\ pc[n] = "created"
    /\ statsKey' = [statsKey EXCEPT ![n] = TRUE]
    /\ errCh' = [errCh EXCEPT ![n] = [nil |-> FALSE, buf |-> <<>>]]
    /\ err' = [err EXCEPT ![n] = NoErr]
    /\ runs' = [runs EXCEPT ![n] = @ + 1]
    /\ pc' = [pc EXCEPT ![n] = "running"]
    /\ registry' = NewStatistics(n, registry)
    /\ regCalls' = [regCalls EXCEPT ![n] = @ + 1]
    /\ UNCHANGED <<panicking, result, posted, logged, crashed, graphVars, errVars>>
    /\ UNCHANGED <<maxVars, unregCalls, stopFCalls, flowVars, stats>>

\* The run routine returns and the deferred function never closes the
\* outputs before it posts.
runReturnNoClose(n, v) ==
    /\ ~crashed
    /\ pc[n] = "running"
    /\ err' = [err EXCEPT ![n] = v]
    /\ result' = [result EXCEPT ![n] = v]
    /\ pc' = [pc EXCEPT ![n] = IF v # NoErr THEN "fault" ELSE "send"]
    /\ UNCHANGED <<panicking, runs, errCh, posted, logged, statsKey, crashed,
                   graphVars, errVars>>
    /\ UNCHANGED extVars

\* err = n.runF(snapshot) returns v: the assignment happens, then the
\* deferred function runs: its first statement n.closeChildEdges(), and the
\* test of err that follows it.
runReturn(n, v) ==
    /\ ~crashed
    /\ pc[n] = "running"
    /\ err' = [err EXCEPT ![n] = v]
    /\ result' = [result EXCEPT ![n] = v]
    /\ edges' = closeChildEdges(n, edges)
    /\ pc' = [pc EXCEPT ![n] = IF v # NoErr THEN "fault" ELSE "send"]
    /\ UNCHANGED <<provides, wants, children, parents, ins, outs, linkCalls, lastLink>>
    /\ UNCHANGED <<panicking, runs, errCh, posted, logged, statsKey, crashed,
                   errVars>>
    /\ UNCHANGED extVars

\* n.runF(snapshot) panics: the assignment to err never happens, and the
\* deferred function runs while the goroutine is panicking: its first
\* statement n.closeChildEdges(), and the test of err, still nil.
runPanic(n) ==
    /\ ~crashed
    /\ pc[n] = "running"
    /\ panicking' = [panicking EXCEPT ![n] = TRUE]
    /\ result' = [result EXCEPT ![n] = "panic"]
    /\ edges' = closeChildEdges(n, edges)
    /\ pc' = [pc EXCEPT ![n] = IF err[n] # NoErr THEN "fault" ELSE "send"]
    /\ UNCHANGED <<provides, wants, children, parents, ins, outs, linkCalls, lastLink>>
    /\ UNCHANGED <<err, runs, errCh, posted, logged, statsKey, crashed, errVars>>
    /\ UNCHANGED extVars

\* The body of `if err != nil`: recover(), which stops a panic and turns it
\* into the trace error; n.abortParentEdges(); n.logger.Println("E!", err).
deferFault(n) ==
    /\ ~crashed
    /\ pc[n] = "fault"
    /\ LET e == IF panicking[n] THEN TraceErr ELSE err[n]
       IN  /\ err' = [err EXCEPT ![n] = e]
           /\ logged' = [logged EXCEPT ![n] = Append(@, e)]
    /\ panicking' = [panicking EXCEPT ![n] = FALSE]
    /\ edges' = abortParentEdges(n, edges)
    /\ pc' = [pc EXCEPT ![n] = "send"]
    /\ UNCHANGED <<provides, wants, children, parents, ins, outs, linkCalls, lastLink>>
    /\ UNCHANGED <<runs, result, errCh, posted, statsKey, crashed, errVars>>
    /\ UNCHANGED extVars

\* The operand of n.errCh <- err.
sentValue(n) == err[n]

\* The send is skipped when the run routine returned an error.
deferSendSkipOnErr(n) ==
    /\ ~crashed
    /\ pc[n] = "send"
    /\ Len(errCh[n].buf) < errChCap
    /\ IF err[n] = NoErr
       THEN /\ errCh' = [errCh EXCEPT ![n].buf = Append(@, sentValue(n))]
            /\ posted' = [posted EXCEPT ![n] = Append(@, sentValue(n))]
       ELSE UNCHANGED <<errCh, posted>>
    /\ pc' = [pc EXCEPT ![n] = IF panicking[n] THEN "unwinding" ELSE "exited"]
    /\ UNCHANGED <<err, panicking, runs, result, logged, statsKey, crashed,
                   graphVars, errVars>>
    /\ UNCHANGED extVars

\* n.errCh <- err, the deferred function's last statement: it blocks while
\* the channel's buffer is full. After it the goroutine ends, or goes on
\* unwinding the panic that nothing recovered.
deferSend(n) ==
    /\ ~crashed
    /\ pc[n] = "send"
    /\ Len(errCh[n].buf) < errChCap
    /\ errCh' = [errCh EXCEPT ![n].buf = Append(@, sentValue(n))]
    /\ posted' = [posted EXCEPT ![n] = Append(@, sentValue(n))]
    /\ pc' = [pc EXCEPT ![n] = IF panicking[n] THEN "unwinding" ELSE "exited"]
    /\ UNCHANGED <<err, panicking, runs, result, logged, statsKey, crashed,
                   graphVars, errVars>>
    /\ UNCHANGED extVars

\* A panic that no deferred function recovered reaches the top of the
\* goroutine: the Go runtime ends the whole process.
panicEscapes(n) ==
    /\ ~crashed
    /\ pc[n] = "unwinding"
    /\ crashed' = TRUE
    /\ pc' = [pc EXCEPT ![n] = "escaped"]
    /\ UNCHANGED <<err, panicking, runs, result, errCh, posted, logged, statsKey,
                   graphVars, errVars>>
    /\ UNCHANGED extVars

\* ------------------------------------------------------------------- Err()

\* A goroutine calls n.Err() and reaches n.finishedMu.Lock(). The callers
\* are numbered in the order of their calls.
ErrCall(c, n) ==
    /\ ~crashed
    /\ cpc[c] = "idle"
    /\ \A b \in Callers : b < c => cpc[b] # "idle"
    /\ target' = [target EXCEPT ![c] = n]
    /\ cpc' = [cpc EXCEPT ![c] = "lock"]
    /\ UNCHANGED <<finished, nerr, mu, reads, onNil, ret, graphVars, runVars>>
    /\ UNCHANGED extVars

\* Lock() is granted and the critical section runs up to the point where it
\* can block. With n.finished set it is `return n.err` and the deferred
\* Unlock(); otherwise `n.finished = true`, and the operand n.errCh of the
\* receive is read: a nil channel when start has not run yet.
ErrLock(c) ==
    /\ ~crashed
    /\ cpc[c] = "lock"
    /\ mu[target[c]] = 0
    /\ IF ~finished[target[c]]
       THEN /\ mu' = [mu EXCEPT ![target[c]] = c]
            /\ finished' = [finished EXCEPT ![target[c]] = TRUE]
            /\ onNil' = [onNil EXCEPT ![c] = errCh[target[c]].nil]
            /\ cpc' = [cpc EXCEPT ![c] = "recv"]
            /\ UNCHANGED ret
       ELSE /\ ret' = [ret EXCEPT ![c] = nerr[target[c]]]
            /\ cpc' = [cpc EXCEPT ![c] = "done"]
            /\ UNCHANGED <<mu, finished, onNil>>
    /\ UNCHANGED <<nerr, reads, target, graphVars, runVars>>
    /\ UNCHANGED extVars

\* The receive keeps its value in a local variable and returns it.
ErrRecvLocal(c) ==
    /\ ~crashed
    /\ cpc[c] = "recv"
    /\ ~onNil[c]
    /\ errCh[target[c]].buf # <<>>
    /\ ret' = [ret EXCEPT ![c] = Head(errCh[target[c]].buf)]
    /\ errCh' = [errCh EXCEPT ![target[c]].buf = Tail(@)]
    /\ reads' = [reads EXCEPT ![target[c]] = @ + 1]
    /\ mu' = [mu EXCEPT ![target[c]] = 0]
    /\ cpc' = [cpc EXCEPT ![c] = "done"]
    /\ UNCHANGED <<finished, nerr, target, onNil, graphVars>>
    /\ UNCHANGED <<pc, err, panicking, runs, result, posted, logged, statsKey, crashed>>
    /\ UNCHANGED extVars

\* The receive does not wait: an empty channel yields nil.
ErrRecvNoWait(c) ==
    /\ ~crashed
    /\ cpc[c] = "recv"
    /\ LET got == ~onNil[c] /\ errCh[target[c]].buf # <<>>
           v == IF got THEN Head(errCh[target[c]].buf) ELSE NoErr
       IN  /\ nerr' = [nerr EXCEPT ![target[c]] = v]
           /\ ret' = [ret EXCEPT ![c] = v]
           /\ errCh' = IF got THEN [errCh EXCEPT ![target[c]].buf = Tail(@)]
                       ELSE errCh
           /\ reads' = IF got THEN [reads EXCEPT ![target[c]] = @ + 1] ELSE reads
    /\ mu' = [mu EXCEPT ![target[c]] = 0]
    /\ cpc' = [cpc EXCEPT ![c] = "done"]
    /\ UNCHANGED <<finished, target, onNil, graphVars>>
    /\ UNCHANGED <<pc, err, panicking, runs, result, posted, logged, statsKey, crashed>>
    /\ UNCHANGED extVars

\* n.err = <-n.errCh: blocks until the channel read at ErrLock holds a value;
\* then `return n.err` and the deferred n.finishedMu.Unlock().
ErrRecv(c) ==
    /\ ~crashed
    /\ cpc[c] = "recv"
    /\ ~onNil[c]
    /\ errCh[target[c]].buf # <<>>
    /\ nerr' = [nerr EXCEPT ![target[c]] = Head(errCh[target[c]].buf)]
    /\ ret' = [ret EXCEPT ![c] = Head(errCh[target[c]].buf)]
    /\ errCh' = [errCh EXCEPT ![target[c]].buf = Tail(@)]
    /\ reads' = [reads EXCEPT ![target[c]] = @ + 1]
    /\ mu' = [mu EXCEPT ![target[c]] = 0]
    /\ cpc' = [cpc EXCEPT ![c] = "done"]
    /\ UNCHANGED <<finished, target, onNil, graphVars>>
    /\ UNCHANGED <<pc, err, panicking, runs, result, posted, logged, statsKey, crashed>>
    /\ UNCHANGED extVars

\* ------------------------------------------------------------ specification

Next ==
    \/ \E n \in Nodes, c \in Nodes : linkCalls < MaxLinks /\ linkChild(n, c)
    \/ \E n \in Nodes : start(n)
    \/ \E n \in Nodes, v \in Errors \cup {NoErr} : runReturn(n, v)
    \/ \E n \in Nodes : runPanic(n)
    \/ \E n \in Nodes : deferFault(n)
    \/ \E n \in Nodes : deferSend(n)
    \/ \E n \in Nodes : panicEscapes(n)
    \/ \E c \in Callers, n \in Nodes : ErrCall(c, n)
    \/ \E c \in Callers : ErrLock(c)
    \/ \E c \in Callers : ErrRecv(c)

Spec == Init /\ [][Next]_vars

\* The Go scheduler runs every goroutine that can take a step: the deferred
\* function of a run routine that has ended, the unwinding of a panic, and a
\* caller inside Err(). When a node is started, when its run routine ends and
\* when Err() is called are up to the environment.
Fairness ==
    /\ \A n \in Nodes : WF_vars(deferFault(n))
    /\ \A n \in Nodes : WF_vars(deferSend(n))
    /\ \A n \in Nodes : WF_vars(panicEscapes(n))
    /\ \A c \in Callers : WF_vars(ErrLock(c))
    /\ \A c \in Callers : WF_vars(ErrRecv(c))

FairSpec == Spec /\ Fairness

\* The linking alone, for nodes of every declared type.
NextLink ==
    \E n \in Nodes, c \in Nodes : linkCalls < MaxGraphLinks /\ linkChild(n, c)

SpecLink == InitLink /\ [][NextLink]_vars

\* ---------------------------------------------------------------- properties

\* The goroutine of n is past n.closeChildEdges().
PastClose(n) == pc[n] \in {"fault", "send", "exited", "unwinding", "escaped"}

\* The goroutine of n is past n.errCh <- err.
PastSend(n) == pc[n] \in {"exited", "unwinding", "escaped"}

\* Close was called on every output of n / Abort on every input of n.
OutsClosed(n) == \A k \in DOMAIN outs[n] : edges[outs[n][k]].closed >= 1

InsAborted(n) == \A k \in DOMAIN ins[n] : edges[ins[n][k]].aborted >= 1

\* The callers whose Err() on n has returned.
Returned(n) == {c \in Callers : cpc[c] = "done" /\ target[c] = n}

\* C1: when runF panics, the panic is recovered at the launch boundary: the
\* value posted to errCh is a non-nil error, every input edge is aborted,
\* Err() returns non-nil, and the panic does not go on to end the process.
C1_PanicIntercepted ==
    \A n \in Nodes :
        result[n] = "panic" =>
            /\ pc[n] \notin {"unwinding", "escaped"}
            /\ posted[n] # <<>> => posted[n][1] # NoErr /\ InsAborted(n)
            /\ \A c \in Returned(n) : ret[c] # NoErr

\* C2: when runF returns a non-nil error e, then by the time e is posted
\* every input edge of the node has been aborted and e was logged; e is the
\* one value posted, the goroutine does end by posting it, and Err()
\* returns exactly e.
C2_ErrorReturnPropagates ==
    \A n \in Nodes :
        result[n] \in Errors =>
            /\ PastSend(n) => posted[n] # <<>>
            /\ posted[n] # <<>> =>
                /\ posted[n] = <<result[n]>>
                /\ logged[n] = <<result[n]>>
                /\ InsAborted(n)
            /\ \A c \in Returned(n) : ret[c] = result[n]

\* C2 witness: a sink with two inputs returned e1, and Err() on it returned.
C2_Witness ==
    \E n \in Nodes :
        /\ result[n] = "e1"
        /\ Len(ins[n]) = 2
        /\ Returned(n) # {}

\* C3: whichever way runF ends, Close is called exactly once on each output
\* edge of the node, by the node's own goroutine: an edge's Close count is 1
\* once its producer is past closeChildEdges, and 0 before.
C3_OutputsClosedOnce ==
    \A i \in DOMAIN edges :
        edges[i].closed = IF PastClose(edges[i].parent) THEN 1 ELSE 0

\* C3 witness: both nodes have ended, the one with two outputs by a panic.
C3_Witness ==
    /\ \E n \in Nodes : Len(outs[n]) = 2 /\ result[n] = "panic" /\ PastSend(n)
    /\ \E n \in Nodes : result[n] \in Errors /\ PastSend(n)

C5_ExactlyOnePost ==
    \A n \in Nodes :
        /\ Len(posted[n]) = IF PastSend(n) THEN 1 ELSE 0
        /\ Len(errCh[n].buf) <= 1
        /\ pc[n] = "send" /\ ~crashed => ENABLED deferSend(n)

\* C5 witness: both nodes have posted, one of them after an error, and
\* nobody has called Err().
C5_Witness ==
    /\ \A n \in Nodes : PastSend(n)
    /\ \E n \in Nodes : result[n] \in Errors
    /\ \A c \in Callers : cpc[c] = "idle"

\* C6: all Err() calls on a node return the same value, the one posted; the
\* channel is received from at most once; runF is entered exactly once per
\* start, however many Err() calls there are.
C6_ErrIdempotent ==
    \A n \in Nodes :
        /\ \A c \in Returned(n) : posted[n] # <<>> /\ ret[c] = posted[n][1]
        /\ \A c1 \in Returned(n), c2 \in Returned(n) : ret[c1] = ret[c2]
        /\ reads[n] <= 1
        /\ runs[n] = IF pc[n] = "created" THEN 0 ELSE 1

\* C6 witness: two Err() calls on one node have both returned its error.
C6_Witness ==
    \E n \in Nodes :
        /\ Cardinality(Returned(n)) >= 2
        /\ \A c \in Returned(n) : ret[c] = "e1"
        /\ reads[n] = 1

\* C7: no Err() call returns before the goroutine has posted its result:
\* while runF has not returned, no caller of Err() on that node is done.
C7_ErrWaitsForPost ==
    \A c \in Callers :
        cpc[c] = "done" => PastSend(target[c]) /\ posted[target[c]] # <<>>

\* C7 witness: one call has returned from an ended node while another call
\* waits in the receive on a node whose runF is still running.
C7_Witness ==
    \E c1 \in Callers, c2 \in Callers :
        /\ cpc[c1] = "done"
        /\ cpc[c2] = "recv"
        /\ pc[target[c2]] = "running"

\* C8: every Err() call, whenever it was made, returns once the node has
\* posted its result.
C8_ErrEventuallyReturns ==
    \A c \in Callers :
        (cpc[c] \in {"lock", "recv"} /\ posted[target[c]] # <<>>)
            ~> (cpc[c] = "done")

\* What the last linkChild call was given.
LinkMatched == provides[lastLink.n] = wants[lastLink.c]

\* C9 as stated: linkChild succeeds whenever the parent's output type equals
\* the child's input type, and fails with a type mismatch otherwise.
C9_SucceedsIffTypesEqual ==
    lastLink.res # "none" =>
        lastLink.res = IF LinkMatched THEN "ok" ELSE "mismatch"

\* One linkChild(n, c) call is made in this step.
LinkStep(n, c) ==
    /\ linkCalls' = linkCalls + 1
    /\ lastLink'.n = n
    /\ lastLink'.c = c

\* C9, amended: linkChild succeeds when the types are equal and the type is
\* one newEdge builds an edge for; it fails with the unknown-edge-type error
\* when they are equal and newEdge builds none; when they differ it fails
\* with the mismatch error and changes no edge and no node's ins, outs,
\* parents or children.
C9_LinkTypeCheck ==
    [][\A n \in Nodes, c \in Nodes :
        LinkStep(n, c) =>
            /\ provides[n] # wants[c] =>
                /\ lastLink'.res = "mismatch"
                /\ UNCHANGED <<children, parents, ins, outs, edges>>
            /\ provides[n] = wants[c] =>
                lastLink'.res = IF provides[n] \in ConduitTypes
                                THEN "ok" ELSE "unknown"]_vars

\* C9 witness: a link was refused for a type mismatch on a child that has an
\* input from an earlier successful link.
C9_Witness ==
    /\ lastLink.res = "mismatch"
    /\ ins[lastLink.c] # <<>>

\* Every edge is an output of its parent alone and an input of its child
\* alone, once each.
OneProducerOneConsumer ==
    \A i \in DOMAIN edges :
        \A m \in Nodes :
            /\ Count(outs[m], i) = IF m = edges[i].parent THEN 1 ELSE 0
            /\ Count(ins[m], i) = IF m = edges[i].child THEN 1 ELSE 0

\* What a successful linkChild(n, c) does: one new edge from n to c, appended
\* to c.ins and n.outs; c appended to n.children and n to c.parents; nothing
\* else of the graph touched.
LinkAppends(n, c) ==
    LET id == Len(edges) + 1
    IN  /\ Len(edges') = id
        /\ \A i \in DOMAIN edges : edges'[i] = edges[i]
        /\ edges'[id].parent = n
        /\ edges'[id].child = c
        /\ edges'[id].type = provides[n]
        /\ \A m \in Nodes :
            /\ ins'[m] = IF m = c THEN Append(ins[m], id) ELSE ins[m]
            /\ outs'[m] = IF m = n THEN Append(outs[m], id) ELSE outs[m]
            /\ children'[m] = IF m = n THEN Append(children[m], c)
                              ELSE children[m]
            /\ parents'[m] = IF m = c THEN Append(parents[m], n)
                             ELSE parents[m]

\* C10: each successful linkChild creates one new edge and records it and
\* the parent/child relation as LinkAppends says, with no deduplication; so
\* every edge has exactly one producer and one consumer.
C10_LinkCreatesOneEdge ==
    /\ []OneProducerOneConsumer
    /\ [][\A n \in Nodes, c \in Nodes :
            LinkStep(n, c) /\ lastLink'.res = "ok" => LinkAppends(n, c)]_vars

\* C10 witness: the same pair was linked twice, giving two distinct edges,
\* and the parent also has an edge to another child (fan-out).
C10_Witness ==
    \E n \in Nodes :
        /\ Len(outs[n]) = 3
        /\ edges[outs[n][1]].child = edges[outs[n][2]].child
        /\ edges[outs[n][1]].child # edges[outs[n][3]].child
        /\ outs[n][1] # outs[n][2]

\* -------------------------------------------------------------- MaxDuration

\* The largest member of a non-empty finite set of integers.
SetMax(S) == CHOOSE x \in S : \A y \in S : y <= x

\* int64(value): the conversion drops the fraction (toward zero). The value
\* is given in halves, the result is in whole units.
int64(h) == IF h >= 0 THEN h \div 2 ELSE -((-h) \div 2)

\* Set is entered with a float64 value, and next := int64(value) is computed.
\* Callers are numbered in call order.
SetCall(s, h) ==
    /\ spc[s] = "idle"
    /\ \A b \in Setters : b < s => spc[b] # "idle"
    /\ spc' = [spc EXCEPT ![s] = "load"]
    /\ sval' = [sval EXCEPT ![s] = h]
    /\ UNCHANGED <<d, scur>>
    /\ UNCHANGED <<graphVars, runVars, errVars, stopVars, flowVars, stats>>

\* cur := v.Int(); if next > cur the compare-and-swap follows, else return.
SetLoad(s) ==
    /\ spc[s] = "load"
    /\ scur' = [scur EXCEPT ![s] = d]
    /\ spc' = [spc EXCEPT ![s] = IF int64(sval[s]) > d THEN "cas" ELSE "done"]
    /\ UNCHANGED <<d, sval>>
    /\ UNCHANGED <<graphVars, runVars, errVars, stopVars, flowVars, stats>>

\* A Set that stores next without comparing.
SetCASStore(s) ==
    /\ spc[s] = "cas"
    /\ d' = int64(sval[s])
    /\ spc' = [spc EXCEPT ![s] = "done"]
    /\ UNCHANGED <<sval, scur>>
    /\ UNCHANGED <<graphVars, runVars, errVars, stopVars, flowVars, stats>>

\* A Set that gives up when its compare-and-swap fails.
SetCASNoRetry(s) ==
    /\ spc[s] = "cas"
    /\ d' = IF d = scur[s] THEN int64(sval[s]) ELSE d
    /\ spc' = [spc EXCEPT ![s] = "done"]
    /\ UNCHANGED <<sval, scur>>
    /\ UNCHANGED <<graphVars, runVars, errVars, stopVars, flowVars, stats>>

\* A Set that loads cur once, before the loop.
SetCASStale(s) ==
    /\ spc[s] = "cas"
    /\ IF d = scur[s]
       THEN /\ d' = int64(sval[s])
            /\ spc' = [spc EXCEPT ![s] = "done"]
       ELSE /\ spc' = [spc EXCEPT ![s] = "cas"]
            /\ UNCHANGED d
    /\ UNCHANGED <<sval, scur>>
    /\ UNCHANGED <<graphVars, runVars, errVars, stopVars, flowVars, stats>>

\* atomic.CompareAndSwapInt64(&v.d, cur, next): return when it swapped, go
\* round the loop when it did not.
SetCAS(s) ==
    /\ spc[s] = "cas"
    /\ IF d = scur[s]
       THEN /\ d' = int64(sval[s])
            /\ spc' = [spc EXCEPT ![s] = "done"]
       ELSE /\ spc' = [spc EXCEPT ![s] = "load"]
            /\ UNCHANGED d
    /\ UNCHANGED <<sval, scur>>
    /\ UNCHANGED <<graphVars, runVars, errVars, stopVars, flowVars, stats>>

NextMax ==
    \/ \E s \in Setters, h \in SetValues : SetCall(s, h)
    \/ \E s \in Setters : SetLoad(s)
    \/ \E s \in Setters : SetCAS(s)

\* Concurrent Set calls on one fresh MaxDuration.
SpecMax == Init /\ [][NextMax]_vars

\* The scheduler runs every goroutine that can take a step.
FairnessMax ==
    /\ \A s \in Setters : WF_vars(SetLoad(s))
    /\ \A s \in Setters : WF_vars(SetCAS(s))

FairSpecMax == SpecMax /\ FairnessMax

\* Every Set call made has returned.
AllSetsReturned == \A s \in Setters : spc[s] \in {"idle", "done"}

\* The arguments of the Set calls that returned, in halves.
SetArgs == {sval[s] : s \in {t \in Setters : spc[t] = "done"}}

\* C11 (as stated): once every Set call has returned, Int() is the largest of
\* the arguments v1..vn and 0.
C11_FinalIsMaxOfArgs ==
    AllSetsReturned => 2 * d = SetMax(SetArgs \cup {0})

\* C11 (amended): once every Set call has returned, Int() is the largest of
\* int64(v1)..int64(vn) and 0, each argument cut to its integer part.
C11_FinalIsMaxOfTruncated ==
    AllSetsReturned => d = SetMax({int64(h) : h \in SetArgs} \cup {0})

\* Two calls returned, one of them after its compare-and-swap was attempted
\* on a value another call had already raised, and a fraction was dropped.
C11_Witness ==
    /\ \A s \in Setters : spc[s] = "done"
    /\ \E s \in Setters : scur[s] > 0 /\ int64(sval[s]) > scur[s]
    /\ \E s \in Setters : 2 * int64(sval[s]) # sval[s]
    /\ d = int64(MaxHalf)

\* C12: no step lowers the stored value, and a Set whose value is not greater
\* than the value it loads returns without changing it.
C12_Monotonic ==
    [][/\ d' >= d
       /\ \A s \in Setters :
            (spc[s] = "load" /\ spc'[s] # "load" /\ int64(sval[s]) <= d)
                => (d' = d /\ spc'[s] = "done")]_vars

\* A Set with a smaller value returned after another had raised the value.
C12_Witness ==
    \E s \in Setters :
        /\ spc[s] = "done"
        /\ d > 0
        /\ int64(sval[s]) < d
        /\ scur[s] = d

\* C20: under fair scheduling every Set call returns, and a caller goes round
\* the loop again only when the value was raised since it loaded it.
C20_SetTerminates ==
    /\ \A s \in Setters : (spc[s] \in {"load", "cas"}) ~> (spc[s] = "done")
    /\ [][\A s \in Setters :
            (spc[s] = "cas" /\ spc'[s] = "load") => d > scur[s]]_vars

\* A Set returned after going round the loop: it loaded a raised value that
\* its own value still exceeds.
C20_Witness ==
    \E s \in Setters :
        /\ spc[s] = "done"
        /\ scur[s] > 0
        /\ int64(sval[s]) > scur[s]
        /\ d = int64(sval[s])

\* -------------------------------------------------------------------- stop

\* The nodes whose kind sets a stop routine (n.stopF # nil): the sink has
\* one, the source has none.
StopFNodes == {2}

\* A stop that leaves the statistics registered.
stopNoDelete(n) ==
    /\ ~crashed
    /\ unregCalls[n] < MaxStops
    /\ stopFCalls' = [stopFCalls EXCEPT ![n] = IF n \in StopFNodes THEN @ + 1 ELSE @]
    /\ unregCalls' = [unregCalls EXCEPT ![n] = @ + 1]
    /\ UNCHANGED <<registry, regCalls, maxVars, flowVars, stats>>
    /\ UNCHANGED <<graphVars, runVars, errVars>>

\* A stop that halts the node by aborting its inputs.
stopAborts(n) ==
    /\ ~crashed
    /\ unregCalls[n] < MaxStops
    /\ stopFCalls' = [stopFCalls EXCEPT ![n] = IF n \in StopFNodes THEN @ + 1 ELSE @]
    /\ registry' = DeleteStatistics(n, statsKey[n], registry)
    /\ unregCalls' = [unregCalls EXCEPT ![n] = @ + 1]
    /\ edges' = abortParentEdges(n, edges)
    /\ UNCHANGED <<regCalls, maxVars, flowVars, stats>>
    /\ UNCHANGED <<provides, wants, children, parents, ins, outs, linkCalls, lastLink>>
    /\ UNCHANGED <<runVars, errVars>>

\* n.stop(): invoke stopF when the node has one, then DeleteStatistics.
stop(n) ==
    /\ ~crashed
    /\ unregCalls[n] < MaxStops
    /\ stopFCalls' = [stopFCalls EXCEPT ![n] = IF n \in StopFNodes THEN @ + 1 ELSE @]
    /\ registry' = DeleteStatistics(n, statsKey[n], registry)
    /\ unregCalls' = [unregCalls EXCEPT ![n] = @ + 1]
    /\ UNCHANGED <<regCalls, maxVars, flowVars, stats>>
    /\ UNCHANGED <<graphVars, runVars, errVars>>

\* The lifecycle of a source linked to a sink, with an orchestrator that
\* stops them at any time and one caller of Err().
NextStop ==
    \/ linkCalls = 0 /\ linkChild(1, 2)
    \/ \E n \in Nodes : start(n)
    \/ \E n \in Nodes, v \in Errors \cup {NoErr} : runReturn(n, v)
    \/ \E n \in Nodes : runPanic(n)
    \/ \E n \in Nodes : deferFault(n)
    \/ \E n \in Nodes : deferSend(n)
    \/ \E n \in Nodes : panicEscapes(n)
    \/ \E n \in Nodes : ErrCall(1, n)
    \/ ErrLock(1)
    \/ ErrRecv(1)
    \/ \E n \in Nodes : stop(n)

SpecStop == Init /\ [][NextStop]_vars

\* This step is a stop() of n.
StopStep(n) == unregCalls'[n] # unregCalls[n]

C14_StopFrame ==
    /\ [](\A n \in Nodes : PastSend(n) => result[n] # "none")
    /\ [][(\E n \in Nodes : StopStep(n)) =>
            UNCHANGED <<graphVars, runVars, errVars>>]_vars

\* A node with an open input was stopped while its run routine is running,
\* and a caller is waiting for its completion.
C14_Witness ==
    \E n \in Nodes :
        /\ unregCalls[n] >= 1
        /\ pc[n] = "running"
        /\ ins[n] # <<>>
        /\ \A k \in DOMAIN ins[n] : edges[ins[n][k]].aborted = 0
        /\ cpc[1] = "recv"
        /\ target[1] = n

\* ------------------------------------------------------- records in flight

\* The run routine of n may take a step of its own: it is running, has no
\* Write pending and has seen no Write fail.
Idle(n) ==
    /\ ~crashed
    /\ pc[n] = "running"
    /\ wop[n] = 0
    /\ wret[n] = "none"

\* Every input of n is closed and drained: its reads give end-of-stream.
EndOfStream(n) ==
    /\ ins[n] # <<>>
    /\ \A k \in DOMAIN ins[n] :
            edges[ins[n][k]].closed >= 1 /\ edges[ins[n][k]].q = <<>>

\* The sum of f over the finite set D.
RECURSIVE Sum(_, _)
Sum(f, D) ==
    IF D = {} THEN 0
    ELSE LET x == CHOOSE y \in D : TRUE IN f[x] + Sum(f, D \ {x})

\* The number of records collected by edge i, over all groups.
Collected(i) ==
    Sum([g \in DOMAIN edges[i].gstats |-> edges[i].gstats[g].c],
        DOMAIN edges[i].gstats)

\* The number of records the run routine of n has written.
Written(n) == Sum([k \in DOMAIN outs[n] |-> Collected(outs[n][k])], DOMAIN outs[n])

\* The group statistics of an edge after it collected record r: the group's
\* collected count is incremented (a group not seen before starts at 0, with
\* no tags or dimensions retained yet).
collect(gs, r) ==
    LET old == IF r.group \in DOMAIN gs THEN gs[r.group]
               ELSE [c |-> 0, e |-> 0, tags |-> "", dims |-> ""]
    IN  [g \in DOMAIN gs \cup {r.group} |->
            IF g = r.group THEN [old EXCEPT !.c = @ + 1] ELSE gs[g]]

\* The group statistics of an edge after it emitted record r: the group's
\* emitted count is incremented and its tags and dimensions are refreshed.
emit(gs, r) ==
    [gs EXCEPT ![r.group] =
        [c |-> @.c, e |-> @.e + 1, tags |-> r.tags, dims |-> r.dims]]

\* The run routine of n calls Write on its k-th output.
WriteCall(n, k) ==
    /\ Idle(n)
    /\ k \in DOMAIN outs[n]
    /\ Written(n) < MaxRecords
    /\ wop' = [wop EXCEPT ![n] = outs[n][k]]
    /\ UNCHANGED <<wret, maxVars, stopVars, stats>>
    /\ UNCHANGED <<graphVars, runVars, errVars>>

\* The pending Write of record r by n finds room in the queue and returns.
WriteOk(n, r) ==
    /\ ~crashed
    /\ wop[n] # 0
    /\ edges[wop[n]].aborted = 0
    /\ Len(edges[wop[n]].q) < EdgeCap
    /\ edges' = [edges EXCEPT ![wop[n]].q = Append(@, r),
                              ![wop[n]].gstats = collect(@, r)]
    /\ wop' = [wop EXCEPT ![n] = 0]
    /\ UNCHANGED <<wret, maxVars, stopVars, stats>>
    /\ UNCHANGED <<provides, wants, children, parents, ins, outs, linkCalls, lastLink>>
    /\ UNCHANGED <<runVars, errVars>>

\* The pending Write of n is on an aborted edge: it returns ConduitAborted.
WriteAborted(n) ==
    /\ ~crashed
    /\ wop[n] # 0
    /\ edges[wop[n]].aborted >= 1
    /\ wret' = [wret EXCEPT ![n] = "ConduitAborted"]
    /\ wop' = [wop EXCEPT ![n] = 0]
    /\ UNCHANGED <<maxVars, stopVars, stats>>
    /\ UNCHANGED <<graphVars, runVars, errVars>>

\* The run routine of n reads a record from its k-th input.
ReadOk(n, k) ==
    /\ Idle(n)
    /\ k \in DOMAIN ins[n]
    /\ edges[ins[n][k]].aborted = 0
    /\ edges[ins[n][k]].q # <<>>
    /\ edges' = [edges EXCEPT ![ins[n][k]].q = Tail(@),
                              ![ins[n][k]].gstats = emit(@, Head(edges[ins[n][k]].q))]
    /\ UNCHANGED <<flowVars, maxVars, stopVars, stats>>
    /\ UNCHANGED <<provides, wants, children, parents, ins, outs, linkCalls, lastLink>>
    /\ UNCHANGED <<runVars, errVars>>

\* A run routine whose reads reached end-of-stream returns nil.
FlowEOS(n) ==
    /\ Idle(n)
    /\ EndOfStream(n)
    /\ runReturn(n, NoErr)

\* A run routine without inputs has nothing more to write and returns nil.
SourceReturn(n) ==
    /\ Idle(n)
    /\ ins[n] = <<>>
    /\ runReturn(n, NoErr)

\* A run routine whose Write failed returns an error.
FlowFail(n) ==
    /\ wop[n] = 0
    /\ wret[n] = "ConduitAborted"
    /\ \E v \in Errors : runReturn(n, v)

\* A run routine fails on its own: it returns an error,
FlowFault(n) ==
    /\ Idle(n)
    /\ \E v \in Errors : runReturn(n, v)

\* or it panics.
FlowPanic(n) ==
    /\ Idle(n)
    /\ runPanic(n)

\* A source linked to a sink, both started, with records flowing.
NextFlow ==
    \/ linkCalls = 0 /\ linkChild(1, 2)
    \/ \E n \in Nodes : start(n)
    \/ \E n \in Nodes, k \in 1..MaxLinks : WriteCall(n, k)
    \/ \E n \in Nodes, r \in Records : WriteOk(n, r)
    \/ \E n \in Nodes : WriteAborted(n)
    \/ \E n \in Nodes, k \in 1..MaxLinks : ReadOk(n, k)
    \/ \E n \in Nodes : FlowEOS(n)
    \/ \E n \in Nodes : SourceReturn(n)
    \/ \E n \in Nodes : FlowFail(n)
    \/ \E n \in Nodes : FlowFault(n)
    \/ \E n \in Nodes : FlowPanic(n)
    \/ \E n \in Nodes : deferFault(n)
    \/ \E n \in Nodes : deferSend(n)
    \/ \E n \in Nodes : panicEscapes(n)

SpecFlow == Init /\ [][NextFlow]_vars

\* Every goroutine that can take a step is run, a run routine goes on with
\* its work (it writes again, or it is done), returns once a Write failed
\* and returns at end-of-stream. Faults are not forced.
FairnessFlow ==
    /\ \A n \in Nodes :
        /\ WF_vars((\E k \in 1..MaxLinks : WriteCall(n, k)) \/ SourceReturn(n))
        /\ WF_vars(\E r \in Records : WriteOk(n, r))
        /\ WF_vars(WriteAborted(n))
        /\ WF_vars(\E k \in 1..MaxLinks : ReadOk(n, k))
        /\ WF_vars(FlowEOS(n))
        /\ WF_vars(FlowFail(n))
        /\ WF_vars(deferFault(n))
        /\ WF_vars(deferSend(n))
        /\ WF_vars(panicEscapes(n))

FairSpecFlow == SpecFlow /\ FairnessFlow

\* The run routine of n ended with a fault: an error return or a panic.
Faulted(n) == result[n] \in Errors \cup {"panic"}

\* Node a has a Write pending on a full edge whose consumer b has faulted.
BlockedOnFaulted(a, b) ==
    /\ wop[a] # 0
    /\ edges[wop[a]].child = b
    /\ Len(edges[wop[a]].q) = EdgeCap
    /\ Faulted(b)

\* C15: a Write pending on a full edge whose consumer's run routine ended with
\* a fault eventually returns ConduitAborted.
C15_BlockedWriteAborted ==
    \A a \in Nodes, b \in Nodes :
        BlockedOnFaulted(a, b) ~> (wret[a] = "ConduitAborted")

\* C16: once every node is started and one of them has faulted, every node
\* eventually posts its completion result.
C16_AllTerminateAfterFault ==
    ((\A n \in Nodes : pc[n] # "created") /\ (\E n \in Nodes : Faulted(n)))
        ~> (\A n \in Nodes : posted[n] # <<>>)

readGroupStats(i) == edges[i].gstats

\* A nodeStatsByGroup that samples the last output.
nodeStatsByGroupLast(n) ==
    IF Len(outs[n]) > 0
    THEN LET gs == readGroupStats(outs[n][Len(outs[n])])
         IN  [nil |-> FALSE,
              m |-> [g \in DOMAIN gs |->
                        [emitted |-> gs[g].c, tags |-> gs[g].tags, dims |-> gs[g].dims]]]
    ELSE NilStats

\* n.nodeStatsByGroup(): with no output the map stays nil; otherwise a map is
\* made and filled from n.outs[0] alone, one entry per group, whose field
\* "emitted" is the count c the edge collected.
nodeStatsByGroup(n) ==
    IF Len(outs[n]) > 0
    THEN LET gs == readGroupStats(outs[n][1])
         IN  [nil |-> FALSE,
              m |-> [g \in DOMAIN gs |->
                        [emitted |-> gs[g].c, tags |-> gs[g].tags, dims |-> gs[g].dims]]]
    ELSE NilStats

\* A call of n.nodeStatsByGroup(), whose result the caller keeps.
StatsCall(n) ==
    /\ ~crashed
    /\ stats' = [stats EXCEPT ![n] = nodeStatsByGroup(n)]
    /\ UNCHANGED <<maxVars, stopVars, flowVars>>
    /\ UNCHANGED <<graphVars, runVars, errVars>>

\* A source linked to the sink once or more, records flowing, and the
\* statistics of the nodes sampled at any time.
NextStats ==
    \/ linkCalls < MaxLinks /\ linkChild(1, 2)
    \/ \E n \in Nodes : start(n)
    \/ \E n \in Nodes, k \in 1..MaxLinks : WriteCall(n, k)
    \/ \E n \in Nodes, r \in Records : WriteOk(n, r)
    \/ \E n \in Nodes, k \in 1..MaxLinks : ReadOk(n, k)
    \/ \E n \in Nodes : StatsCall(n)

SpecStats == Init /\ [][NextStats]_vars

\* This step is a nodeStatsByGroup() of n that returned something new.
StatsStep(n) == stats'[n] # stats[n]

\* The result r has exactly one entry per group observed on edge i, with the
\* group's retained tags and dimensions.
EntryPerGroup(r, i) ==
    /\ ~r.nil
    /\ DOMAIN r.m = DOMAIN edges[i].gstats
    /\ \A g \in DOMAIN r.m :
        /\ r.m[g].tags = edges[i].gstats[g].tags
        /\ r.m[g].dims = edges[i].gstats[g].dims

\* C18 (as stated): without outputs nodeStatsByGroup() returns no map; with
\* outputs it returns one entry per group observed on the first output, with
\* the emitted count, tags and dimensions of that group on that edge, and
\* the call changes no counter.
C18_StatsEmittedOfFirstOut ==
    [][\A n \in Nodes :
        StatsStep(n) =>
            /\ UNCHANGED edges
            /\ outs[n] = <<>> => stats'[n] = NilStats
            /\ outs[n] # <<>> =>
                /\ EntryPerGroup(stats'[n], outs[n][1])
                /\ \A g \in DOMAIN stats'[n].m :
                    stats'[n].m[g].emitted = edges[outs[n][1]].gstats[g].e]_vars

\* C18 (amended): the same, but the count reported as "emitted" is the count
\* the first output edge has collected for the group.
C18_StatsCollectedOfFirstOut ==
    [][\A n \in Nodes :
        StatsStep(n) =>
            /\ UNCHANGED edges
            /\ outs[n] = <<>> => stats'[n] = NilStats
            /\ outs[n] # <<>> =>
                /\ EntryPerGroup(stats'[n], outs[n][1])
                /\ \A g \in DOMAIN stats'[n].m :
                    stats'[n].m[g].emitted = edges[outs[n][1]].gstats[g].c]_vars

\* The source has two outputs with different groups and counts; its sampled
\* statistics hold the first output's group only, whose collected count is
\* ahead of its emitted count, while the sink's sample is the nil map.
C18_Witness ==
    /\ Len(outs[1]) = 2
    /\ ~stats[1].nil
    /\ DOMAIN stats[1].m = {"g1"}
    /\ stats[1].m["g1"].emitted = 2
    /\ stats[1].m["g1"].tags = "host=b"
    /\ edges[outs[1][1]].gstats["g1"].e = 1
    /\ DOMAIN edges[outs[1][2]].gstats = {"g2"}
    /\ stats[2] = NilStats
    /\ outs[2] = <<>>

\* C19: after any sequence of linkChild calls, failed ones included, n.children
\* and n.outs have the same length and n.outs[i] is the edge that leads to
\* n.children[i], so that edot's n.outs[i] is in range for every child i.
C19_ChildrenMatchOuts ==
    \A n \in Nodes :
        /\ Len(children[n]) = Len(outs[n])
        /\ \A i \in DOMAIN children[n] :
            /\ i \in DOMAIN outs[n]
            /\ edges[outs[n][i]].child = children[n][i]

====
